---- MODULE Spec2Model ----
(***************************************************************************)
(* Model of the tile-grid exploration game of src/main.py: the BFS         *)
(* reachability checker, the item/pitfall placement generator, the game    *)
(* state machine driven by key events, and the per-frame update pass.      *)
(*                                                                         *)
(* Three specifications share the definitions:                             *)
(*   SpecBfs    one call of _bfs_reachable on every (start, goal, blocked) *)
(*   SpecPlace  one call of place_items for every hazard count and shuffle *)
(*   Spec       the main loop: menu, new_game, key events, update pass     *)
(*                                                                         *)
(* The source's grid is 15 x 15 with timers of 75 and 120 frames; the      *)
(* model keeps the code and scales these sizes down (see the bounds).      *)
(***************************************************************************)
EXTENDS Integers, Sequences, FiniteSets, TLC

VARIABLES
  bs,             \* locals of one _bfs_reachable call (SpecBfs)
  ps,             \* locals of one place_items call (SpecPlace)
  app_state,      \* main(): "menu" | "playing"
  selected_diff,  \* main(): the selected difficulty name
  game_state,     \* main(): the GameState record, NoGame when None
  frame_events,   \* main(): events of the current frame handled so far
                  \* (SpecFrame)
  script          \* a scripted walk and its feeding (SpecPath)

vars == <<bs, ps, app_state, selected_diff, game_state, frame_events, script>>

----------------------------------------------------------------------------
(* Bounds of the model.                                                     *)

COLS == 4             \* source: COLS = 15
ROWS == 2             \* source: ROWS = 15
FLASH_DURATION == 2   \* source: FLASH_DURATION = 75 frames
PIECE_DURATION == 3   \* source: PIECE_DURATION = 120 frames
MaxHazardCount == 3   \* place_items is called with 0..MaxHazardCount
MaxDeaths == 2        \* death_count is capped in the key-event guards
MaxWinTicks == 2      \* update passes modelled while on the win screen
MaxFrameEvents == 2   \* events modelled in the queue of one frame
MaxStrayMoves == 2    \* moves of a script modelled from the first ignored one on

(* Program constants.                                                       *)

NUM_PIECES == 5

\* source: START_POS = (7, 7), the centre cell of the 15 x 15 grid
START_POS == <<COLS \div 2, ROWS \div 2>>

\* source: {"Easy": 15, "Medium": 20, "Hard": 25}, scaled to the model's grid
DIFFICULTY == [Easy |-> 1, Medium |-> 2, Hard |-> 3]

DiffNames == DOMAIN DIFFICULTY

Cells == (0..(COLS - 1)) \X (0..(ROWS - 1))

InGrid(p) == 0 <= p[1] /\ p[1] < COLS /\ 0 <= p[2] /\ p[2] < ROWS

----------------------------------------------------------------------------
(* _bfs_reachable (main.py 153-168).                                        *)

\* the neighbour offsets in the order the inner for loop scans them
BfsDeltas == << <<1, 0>>, <<-1, 0>>, <<0, 1>>, <<0, -1>> >>

\* lines 154-157: the early return, else visited = {start}, q = deque([start])
BfsEntry(start, goal, blocked) ==
  [start |-> start, goal |-> goal, blocked |-> blocked,
   q |-> IF start = goal THEN <<>> ELSE <<start>>,
   visited |-> IF start = goal THEN {} ELSE {start},
   status |-> IF start = goal THEN "true" ELSE "run"]

\* lines 160-167: the for loop over the neighbours of c, from offset i on
RECURSIVE BfsScan(_, _, _)
BfsScan(b, c, i) ==
  IF i > Len(BfsDeltas) THEN b
  ELSE LET nb == <<c[1] + BfsDeltas[i][1], c[2] + BfsDeltas[i][2]>> IN
       IF nb = b.goal THEN [b EXCEPT !.status = "true"]
       ELSE IF InGrid(nb) /\ nb \notin b.blocked /\ nb \notin b.visited
            THEN BfsScan([b EXCEPT !.visited = @ \cup {nb},
                                   !.q = Append(@, nb)], c, i + 1)
            ELSE BfsScan(b, c, i + 1)

\* lines 158-168: one iteration of the while loop, or the final return False
BfsIter(b) ==
  IF b.q = <<>> THEN [b EXCEPT !.status = "false"]
  ELSE BfsScan([b EXCEPT !.q = Tail(@)], Head(b.q), 1)

RECURSIVE BfsRun(_)
BfsRun(b) == IF b.status = "run" THEN BfsRun(BfsIter(b)) ELSE b

bfs_reachable(start, goal, blocked) ==
  BfsRun(BfsEntry(start, goal, blocked)).status = "true"

----------------------------------------------------------------------------
(* place_items (main.py 171-204).  random.shuffle followed by a for loop    *)
(* over the shuffled list is modelled as drawing the next cell of the list  *)
(* from the cells not iterated yet (rest): every order of the list is one   *)
(* sequence of draws.                                                       *)

\* lines 177-183: all_cells, forbidden, pieces, the shuffled pool
PlaceEntry(num_pitfalls) ==
  [pc |-> "pieces", num_pitfalls |-> num_pitfalls,
   forbidden |-> {START_POS}, pieces |-> <<>>,
   rest |-> Cells \ {START_POS}, pitfalls |-> {}]

\* mutant of PiecesDone: the break compares with > instead of >=
PiecesDone_OffByOne(p) == p.rest = {} \/ Len(p.pieces) > NUM_PIECES

\* line 185: the break of the pieces loop, or the pool is exhausted
PiecesDone(p) == p.rest = {} \/ Len(p.pieces) >= NUM_PIECES

\* lines 187-189: the body of the pieces loop for the drawn cell
PiecesIter(p, cell) ==
  IF bfs_reachable(START_POS, cell, {})
  THEN [p EXCEPT !.pieces = Append(@, cell),
                 !.forbidden = @ \cup {cell},
                 !.rest = @ \ {cell}]
  ELSE [p EXCEPT !.rest = @ \ {cell}]

\* lines 192-194: pitfalls = set(), the shuffled candidates
PiecesExit(p) ==
  [p EXCEPT !.pc = "pitfalls", !.pitfalls = {}, !.rest = Cells \ p.forbidden]

\* line 197: the break of the pitfalls loop, or the candidates are exhausted
PitfallsDone(p) == p.rest = {} \/ Cardinality(p.pitfalls) >= p.num_pitfalls

\* mutant of PitfallsIter: the pieces are tested against the pitfalls accepted
\* so far, without the candidate
PitfallsIter_StaleTrial(p, cell) ==
  IF \A i \in 1..Len(p.pieces) :
       bfs_reachable(START_POS, p.pieces[i], p.pitfalls)
  THEN [p EXCEPT !.pitfalls = @ \cup {cell}, !.rest = @ \ {cell}]
  ELSE [p EXCEPT !.rest = @ \ {cell}]

\* lines 199-202: the body of the pitfalls loop for the drawn cell
PitfallsIter(p, cell) ==
  LET trial == p.pitfalls \cup {cell} IN
  IF \A i \in 1..Len(p.pieces) : bfs_reachable(START_POS, p.pieces[i], trial)
  THEN [p EXCEPT !.pitfalls = @ \cup {cell}, !.rest = @ \ {cell}]
  ELSE [p EXCEPT !.rest = @ \ {cell}]

\* line 204: return pieces, pitfalls
PitfallsExit(p) == [p EXCEPT !.pc = "done"]

\* the locals at the return, for every order of the two shuffles
RECURSIVE PlaceRun(_)
PlaceRun(p) ==
  CASE p.pc = "pieces" ->
         IF PiecesDone(p) THEN PlaceRun(PiecesExit(p))
         ELSE UNION {PlaceRun(PiecesIter(p, c)) : c \in p.rest}
    [] p.pc = "pitfalls" ->
         IF PitfallsDone(p) THEN PlaceRun(PitfallsExit(p))
         ELSE UNION {PlaceRun(PitfallsIter(p, c)) : c \in p.rest}
    [] OTHER -> {p}

\* the (pieces, pitfalls) pairs place_items(num_pitfalls) can return
place_items(num_pitfalls) ==
  {[pieces |-> r.pieces, pitfalls |-> r.pitfalls] :
     r \in PlaceRun(PlaceEntry(num_pitfalls))}

----------------------------------------------------------------------------
(* The GameState record (main.py 417-435) and its operations.               *)
(*                                                                          *)
(* piece_positions holds the elements of the pieces list: the game logic    *)
(* only tests membership in it (lines 508, 533).  win_angle counts          *)
(* hundredths of a radian.  win_stars holds the number of live particles:   *)
(* their coordinates and colours are read by the renderer alone.            *)

NoGame == [screen_state |-> "none"]

\* the maps new_game and reset_game can draw, per difficulty setting
Placements ==
  [h \in {DIFFICULTY[n] : n \in DiffNames} |->
     {[piece_positions |-> {m.pieces[i] : i \in 1..Len(m.pieces)},
       pitfall_positions |-> m.pitfalls] : m \in place_items(h)}]

\* stands for the map when a handler draws none
NoDraw == [piece_positions |-> {}, pitfall_positions |-> {}]

\* lines 359-369: count fresh particles
make_stars(count) == count

\* lines 372-375: a particle starts with life 1.0 and loses at most 0.022 per
\* update, so none expires within the first 45 updates (MaxWinTicks < 45)
update_stars(stars) == stars

\* lines 441-452, with placed the pair place_items returned
new_game(num_pitfalls, placed) ==
  [player_x |-> START_POS[1], player_y |-> START_POS[2], player_dir |-> 1,
   visited |-> {START_POS},
   piece_positions |-> placed.piece_positions, collected_pieces |-> {},
   pitfall_positions |-> placed.pitfall_positions, revealed_pitfalls |-> {},
   death_count |-> 0, num_pitfalls |-> num_pitfalls,
   screen_state |-> "playing",
   flash_timer |-> 0, piece_timer |-> 0, piece_origin |-> <<0, 0>>,
   win_angle |-> 0, win_stars |-> 0, star_spawn_timer |-> 0]

\* mutant of reset_game: state.pitfall_positions is not replaced
reset_game_KeepsPitfalls(state, placed) ==
  [state EXCEPT
     !.player_x = START_POS[1], !.player_y = START_POS[2], !.player_dir = 1,
     !.visited = {START_POS},
     !.piece_positions = placed.piece_positions,
     !.collected_pieces = {},
     !.revealed_pitfalls = {},
     !.death_count = 0,
     !.screen_state = "playing",
     !.flash_timer = 0, !.piece_timer = 0, !.piece_origin = <<0, 0>>,
     !.win_angle = 0, !.win_stars = 0, !.star_spawn_timer = 0]

\* mutant of reset_game: state.collected_pieces is not cleared
reset_game_KeepsCollected(state, placed) ==
  [state EXCEPT
     !.player_x = START_POS[1], !.player_y = START_POS[2], !.player_dir = 1,
     !.visited = {START_POS},
     !.piece_positions = placed.piece_positions,
     !.pitfall_positions = placed.pitfall_positions,
     !.revealed_pitfalls = {},
     !.death_count = 0,
     !.screen_state = "playing",
     !.flash_timer = 0, !.piece_timer = 0, !.piece_origin = <<0, 0>>,
     !.win_angle = 0, !.win_stars = 0, !.star_spawn_timer = 0]

\* mutant of reset_game: state.piece_timer is not zeroed
reset_game_KeepsPieceTimer(state, placed) ==
  [state EXCEPT
     !.player_x = START_POS[1], !.player_y = START_POS[2], !.player_dir = 1,
     !.visited = {START_POS},
     !.piece_positions = placed.piece_positions,
     !.collected_pieces = {},
     !.pitfall_positions = placed.pitfall_positions,
     !.revealed_pitfalls = {},
     !.death_count = 0,
     !.screen_state = "playing",
     !.flash_timer = 0, !.piece_origin = <<0, 0>>,
     !.win_angle = 0, !.win_stars = 0, !.star_spawn_timer = 0]

\* lines 455-467, with placed the pair place_items(state.num_pitfalls) returned
reset_game(state, placed) ==
  [state EXCEPT
     !.player_x = START_POS[1], !.player_y = START_POS[2], !.player_dir = 1,
     !.visited = {START_POS},
     !.piece_positions = placed.piece_positions,
     !.collected_pieces = {},
     !.pitfall_positions = placed.pitfall_positions,
     !.revealed_pitfalls = {},
     !.death_count = 0,
     !.screen_state = "playing",
     !.flash_timer = 0, !.piece_timer = 0, !.piece_origin = <<0, 0>>,
     !.win_angle = 0, !.win_stars = 0, !.star_spawn_timer = 0]

\* mutant of handle_pitfall: the player is left on the pitfall
handle_pitfall_NoReturn(state) ==
  [state EXCEPT
     !.death_count = @ + 1,
     !.revealed_pitfalls = @ \cup {<<state.player_x, state.player_y>>},
     !.visited = @ \cup {START_POS},
     !.screen_state = "flash",
     !.flash_timer = FLASH_DURATION]

\* mutant of handle_pitfall: a fall clears the explored cells
handle_pitfall_ClearsVisited(state) ==
  [state EXCEPT
     !.death_count = @ + 1,
     !.revealed_pitfalls = @ \cup {<<state.player_x, state.player_y>>},
     !.player_x = START_POS[1], !.player_y = START_POS[2],
     !.visited = {START_POS},
     !.screen_state = "flash",
     !.flash_timer = FLASH_DURATION]

\* mutant of handle_pitfall: the pitfall is used up by the fall
handle_pitfall_ConsumesPitfall(state) ==
  [state EXCEPT
     !.death_count = @ + 1,
     !.revealed_pitfalls = @ \cup {<<state.player_x, state.player_y>>},
     !.pitfall_positions = @ \ {<<state.player_x, state.player_y>>},
     !.player_x = START_POS[1], !.player_y = START_POS[2],
     !.visited = @ \cup {START_POS},
     !.screen_state = "flash",
     !.flash_timer = FLASH_DURATION]

\* mutant of handle_pitfall: the pitfall is not revealed
handle_pitfall_NoReveal(state) ==
  [state EXCEPT
     !.death_count = @ + 1,
     !.player_x = START_POS[1], !.player_y = START_POS[2],
     !.visited = @ \cup {START_POS},
     !.screen_state = "flash",
     !.flash_timer = FLASH_DURATION]

\* mutant of handle_pitfall: the fall is not counted
handle_pitfall_NoCount(state) ==
  [state EXCEPT
     !.revealed_pitfalls = @ \cup {<<state.player_x, state.player_y>>},
     !.player_x = START_POS[1], !.player_y = START_POS[2],
     !.visited = @ \cup {START_POS},
     !.screen_state = "flash",
     !.flash_timer = FLASH_DURATION]

\* lines 473-479
handle_pitfall(state) ==
  [state EXCEPT
     !.death_count = @ + 1,
     !.revealed_pitfalls = @ \cup {<<state.player_x, state.player_y>>},
     !.player_x = START_POS[1], !.player_y = START_POS[2],
     !.visited = @ \cup {START_POS},
     !.screen_state = "flash",
     !.flash_timer = FLASH_DURATION]

DirKeys == {"K_UP", "K_DOWN", "K_LEFT", "K_RIGHT"}
\* mutant of ConfirmKeys: the space bar is left out
ConfirmKeys_ReturnOnly == {"K_RETURN"}
\* line 484: the keys that start a new map on the win screen
ConfirmKeys == {"K_RETURN", "K_SPACE"}
\* K_OTHER stands for every key handle_keydown does not name
Keys == DirKeys \cup ConfirmKeys \cup {"K_OTHER"}

\* lines 488-492: dx, dy
KeyDelta(key) ==
  CASE key = "K_UP" -> <<0, -1>>
    [] key = "K_DOWN" -> <<0, 1>>
    [] key = "K_LEFT" -> <<-1, 0>>
    [] key = "K_RIGHT" -> <<1, 0>>
    [] OTHER -> <<0, 0>>

\* lines 489-492: state.player_dir
KeyDir(key, dir) ==
  CASE key = "K_UP" -> 0
    [] key = "K_DOWN" -> 1
    [] key = "K_LEFT" -> 2
    [] key = "K_RIGHT" -> 3
    [] OTHER -> dir

\* mutant of collect_piece: the last piece is handled like the others
collect_piece_NoWin(state, pos) ==
  [state EXCEPT !.collected_pieces = @ \cup {pos},
                !.piece_origin = pos,
                !.piece_timer = PIECE_DURATION,
                !.screen_state = "piece"]

\* mutant of collect_piece: the piece is shown but not added to the collection
collect_piece_ForgetsPiece(state, pos) ==
  [state EXCEPT !.piece_origin = pos,
                !.piece_timer = PIECE_DURATION,
                !.screen_state = "piece"]

\* mutant of collect_piece: the origin of the found piece is not recorded
collect_piece_NoOrigin(state, pos) ==
  LET got == [state EXCEPT !.collected_pieces = @ \cup {pos},
                           !.piece_timer = PIECE_DURATION,
                           !.screen_state = "piece"] IN
  IF Cardinality(got.collected_pieces) = NUM_PIECES
  THEN [got EXCEPT !.win_stars = make_stars(40),
                   !.win_angle = 0,
                   !.screen_state = "win"]
  ELSE got

\* lines 508-517: the player stands on an uncollected piece
collect_piece(state, pos) ==
  LET got == [state EXCEPT !.collected_pieces = @ \cup {pos},
                           !.piece_origin = pos,
                           !.piece_timer = PIECE_DURATION,
                           !.screen_state = "piece"] IN
  IF Cardinality(got.collected_pieces) = NUM_PIECES
  THEN [got EXCEPT !.win_stars = make_stars(40),
                   !.win_angle = 0,
                   !.screen_state = "win"]
  ELSE got

\* mutant of in_bounds: the upper limits are tested with <=
in_bounds_OffByOne(new_x, new_y) ==
  0 <= new_x /\ new_x <= COLS /\ 0 <= new_y /\ new_y <= ROWS

\* line 499: the target cell is inside the grid
in_bounds(new_x, new_y) ==
  0 <= new_x /\ new_x < COLS /\ 0 <= new_y /\ new_y < ROWS

\* mutant of on_pitfall: a revealed pitfall no longer triggers
on_pitfall_UnrevealedOnly(state, pos) ==
  pos \in state.pitfall_positions /\ pos \notin state.revealed_pitfalls

\* line 506: the cell the player moved onto holds a pitfall
on_pitfall(state, pos) == pos \in state.pitfall_positions

\* mutant of input_locked: the piece-found sequence does not lock the input
input_locked_NoPiece(state) == state.screen_state \in {"win", "flash"}

\* line 483: the screens on which handle_keydown moves nothing
input_locked(state) == state.screen_state \in {"win", "flash", "piece"}

\* lines 482-517; placed is the map reset_game draws when it is called
handle_keydown(key, state, placed) ==
  IF input_locked(state)
  THEN IF state.screen_state = "win" /\ key \in ConfirmKeys
       THEN reset_game(state, placed)
       ELSE state
  ELSE LET d == KeyDelta(key)
           faced == [state EXCEPT !.player_dir = KeyDir(key, @)]
           new_x == state.player_x + d[1]
           new_y == state.player_y + d[2]
           pos == <<new_x, new_y>>
           moved == [faced EXCEPT !.player_x = new_x, !.player_y = new_y,
                                  !.visited = @ \cup {pos}]
       IN IF d = <<0, 0>> THEN faced
          ELSE IF ~in_bounds(new_x, new_y) THEN faced
          ELSE IF on_pitfall(moved, pos) THEN handle_pitfall(moved)
          ELSE IF pos \in moved.piece_positions
                  /\ pos \notin moved.collected_pieces
               THEN collect_piece(moved, pos)
          ELSE moved

\* mutant of update_pass: the countdowns end on < 0 instead of <= 0
update_pass_LateExit(gs) ==
  CASE gs.screen_state = "flash" ->
         LET t == gs.flash_timer - 1 IN
         [gs EXCEPT !.flash_timer = t,
                    !.screen_state = IF t < 0 THEN "playing" ELSE @]
    [] gs.screen_state = "piece" ->
         LET t == gs.piece_timer - 1 IN
         [gs EXCEPT !.piece_timer = t,
                    !.screen_state = IF t < 0 THEN "playing" ELSE @,
                    !.piece_origin = IF t < 0 THEN <<0, 0>> ELSE @]
    [] gs.screen_state = "win" ->
         LET t == gs.star_spawn_timer - 1
             stars == update_stars(gs.win_stars) IN
         [gs EXCEPT !.win_angle = @ + 3,
                    !.win_stars = IF t <= 0 THEN stars + make_stars(8) ELSE stars,
                    !.star_spawn_timer = IF t <= 0 THEN 30 ELSE t]
    [] OTHER -> gs

\* lines 968-988: the update pass of one frame
update_pass(gs) ==
  CASE gs.screen_state = "flash" ->
         LET t == gs.flash_timer - 1 IN
         [gs EXCEPT !.flash_timer = t,
                    !.screen_state = IF t <= 0 THEN "playing" ELSE @]
    [] gs.screen_state = "piece" ->
         LET t == gs.piece_timer - 1 IN
         [gs EXCEPT !.piece_timer = t,
                    !.screen_state = IF t <= 0 THEN "playing" ELSE @,
                    !.piece_origin = IF t <= 0 THEN <<0, 0>> ELSE @]
    [] gs.screen_state = "win" ->
         LET t == gs.star_spawn_timer - 1
             stars == update_stars(gs.win_stars) IN
         [gs EXCEPT !.win_angle = @ + 3,
                    !.win_stars = IF t <= 0 THEN stars + make_stars(8) ELSE stars,
                    !.star_spawn_timer = IF t <= 0 THEN 30 ELSE t]
    [] OTHER -> gs

----------------------------------------------------------------------------
(* SpecBfs: one call of _bfs_reachable, for every start, goal and blocked   *)
(* set of the grid.  bs.args are the caller's arguments, bs.b the locals.   *)

Idle == [pc |-> "idle"]

InitBfs ==
  /\ bs \in {[args |-> [start |-> s, goal |-> g, blocked |-> B],
              b |-> [status |-> "call"]] :
               s \in Cells, g \in Cells, B \in SUBSET Cells}
  /\ ps = Idle
  /\ app_state = "idle"
  /\ selected_diff = "Easy"
  /\ game_state = NoGame
  /\ frame_events = 0
  /\ script = Idle

\* the call: lines 154-157
BfsCall ==
  /\ bs.b.status = "call"
  /\ bs' = [bs EXCEPT !.b = BfsEntry(bs.args.start, bs.args.goal,
                                      bs.args.blocked)]
  /\ UNCHANGED <<ps, app_state, selected_diff, game_state, frame_events, script>>

\* one iteration of the while loop: lines 158-168
BfsStep ==
  /\ bs.b.status = "run"
  /\ bs' = [bs EXCEPT !.b = BfsIter(@)]
  /\ UNCHANGED <<ps, app_state, selected_diff, game_state, frame_events, script>>

NextBfs == BfsCall \/ BfsStep

SpecBfs == InitBfs /\ [][NextBfs]_vars

----------------------------------------------------------------------------
(* SpecPlace: one call of place_items, for every hazard count up to         *)
(* MaxHazardCount and every order of the two shuffled lists.                *)

InitPlace ==
  /\ ps \in {PlaceEntry(h) : h \in 0..MaxHazardCount}
  /\ bs = Idle
  /\ app_state = "idle"
  /\ selected_diff = "Easy"
  /\ game_state = NoGame
  /\ frame_events = 0
  /\ script = Idle

PiecesLoop ==
  /\ ps.pc = "pieces" /\ ~PiecesDone(ps)
  /\ \E cell \in ps.rest : ps' = PiecesIter(ps, cell)
  /\ UNCHANGED <<bs, app_state, selected_diff, game_state, frame_events, script>>

PiecesBreak ==
  /\ ps.pc = "pieces" /\ PiecesDone(ps)
  /\ ps' = PiecesExit(ps)
  /\ UNCHANGED <<bs, app_state, selected_diff, game_state, frame_events, script>>

PitfallsLoop ==
  /\ ps.pc = "pitfalls" /\ ~PitfallsDone(ps)
  /\ \E cell \in ps.rest : ps' = PitfallsIter(ps, cell)
  /\ UNCHANGED <<bs, app_state, selected_diff, game_state, frame_events, script>>

PitfallsReturn ==
  /\ ps.pc = "pitfalls" /\ PitfallsDone(ps)
  /\ ps' = PitfallsExit(ps)
  /\ UNCHANGED <<bs, app_state, selected_diff, game_state, frame_events, script>>

NextPlace == PiecesLoop \/ PiecesBreak \/ PitfallsLoop \/ PitfallsReturn

SpecPlace == InitPlace /\ [][NextPlace]_vars

----------------------------------------------------------------------------
(* Spec: the main loop (main.py 904-988) while it runs.  A frame handles    *)
(* every queued event in turn and then runs the update pass once, so key    *)
(* events and update passes interleave freely.                              *)

Init ==
  /\ app_state = "menu"
  /\ selected_diff = "Easy"
  /\ game_state = NoGame
  /\ bs = Idle
  /\ ps = Idle
  /\ frame_events = 0
  /\ script = Idle

\* lines 929-933: a click on a difficulty button
ClickDifficultyEffect ==
  /\ app_state = "menu"
  /\ \E n \in DiffNames : selected_diff' = n
  /\ UNCHANGED <<bs, ps, script, app_state, game_state>>

\* the event on its own, the frame left aside
ClickDifficulty == ClickDifficultyEffect /\ UNCHANGED frame_events

\* lines 935-938: a click on START
ClickStartEffect ==
  /\ app_state = "menu"
  /\ \E placed \in Placements[DIFFICULTY[selected_diff]] :
       game_state' = new_game(DIFFICULTY[selected_diff], placed)
  /\ app_state' = "playing"
  /\ UNCHANGED <<bs, ps, script, selected_diff>>

\* the event on its own, the frame left aside
ClickStart == ClickStartEffect /\ UNCHANGED frame_events

\* the maps a key event can draw: place_items runs only inside reset_game
KeyDraws(key, state) ==
  IF state.screen_state = "win" /\ key \in ConfirmKeys
  THEN Placements[state.num_pitfalls]
  ELSE {NoDraw}

\* lines 922-923: a KEYDOWN event while a game is on
KeyDownEffect ==
  /\ app_state = "playing"
  /\ \E key \in Keys : \E placed \in KeyDraws(key, game_state) :
       LET after == handle_keydown(key, game_state, placed) IN
       /\ after.death_count <= MaxDeaths
       /\ game_state' = after
  /\ UNCHANGED <<bs, ps, script, app_state, selected_diff>>

\* the event on its own, the frame left aside
KeyDown == KeyDownEffect /\ UNCHANGED frame_events

\* lines 945-953: a touch on a D-pad button (Android)
DpadTouchEffect ==
  /\ app_state = "playing"
  /\ \E key \in DirKeys : \E placed \in KeyDraws(key, game_state) :
       LET after == handle_keydown(key, game_state, placed) IN
       /\ after.death_count <= MaxDeaths
       /\ game_state' = after
  /\ UNCHANGED <<bs, ps, script, app_state, selected_diff>>

\* the event on its own, the frame left aside
DpadTouch == DpadTouchEffect /\ UNCHANGED frame_events

\* lines 914-917: Escape, or the Android back button, while a game is on
KeyEscapeEffect ==
  /\ app_state = "playing"
  /\ app_state' = "menu"
  /\ game_state' = NoGame
  /\ UNCHANGED <<bs, ps, script, selected_diff>>

\* the event on its own, the frame left aside
KeyEscape == KeyEscapeEffect /\ UNCHANGED frame_events

\* lines 956-958: a click on the Menu button
ClickMenuEffect ==
  /\ app_state = "playing"
  /\ app_state' = "menu"
  /\ game_state' = NoGame
  /\ UNCHANGED <<bs, ps, script, selected_diff>>

\* the event on its own, the frame left aside
ClickMenu == ClickMenuEffect /\ UNCHANGED frame_events

\* lines 960-963: a click on the new-map area of the win screen
ClickNewMapEffect ==
  /\ app_state = "playing"
  /\ game_state.screen_state = "win"
  /\ \E placed \in Placements[game_state.num_pitfalls] :
       game_state' = reset_game(game_state, placed)
  /\ UNCHANGED <<bs, ps, script, app_state, selected_diff>>

\* the event on its own, the frame left aside
ClickNewMap == ClickNewMapEffect /\ UNCHANGED frame_events

\* mutant of TickEffect: the frame runs the update pass twice
TickEffect_TwoPasses ==
  /\ app_state = "playing"
  /\ game_state.screen_state = "win" => game_state.win_angle < 3 * MaxWinTicks
  /\ game_state' = update_pass(update_pass(game_state))
  /\ UNCHANGED <<bs, ps, script, app_state, selected_diff>>

\* lines 968-988: the update pass of a frame
TickEffect ==
  /\ app_state = "playing"
  /\ game_state.screen_state = "win" => game_state.win_angle < 3 * MaxWinTicks
  /\ game_state' = update_pass(game_state)
  /\ UNCHANGED <<bs, ps, script, app_state, selected_diff>>

\* the update pass on its own, the frame left aside
Tick == TickEffect /\ UNCHANGED frame_events

Next ==
  \/ ClickDifficulty
  \/ ClickStart
  \/ KeyDown
  \/ DpadTouch
  \/ KeyEscape
  \/ ClickMenu
  \/ ClickNewMap
  \/ Tick

Spec == Init /\ [][Next]_vars

----------------------------------------------------------------------------
(* SpecFrame: the main loop frame by frame (main.py 904-988).  The for      *)
(* loop of line 908 handles the events of the frame's queue one after the   *)
(* other, up to MaxFrameEvents of them, and the update pass ends the frame. *)

\* line 908: the for loop takes the next event of the frame's queue
TakeEvent ==
  /\ frame_events < MaxFrameEvents
  /\ frame_events' = frame_events + 1

FrameClickDifficulty == TakeEvent /\ ClickDifficultyEffect

FrameClickStart == TakeEvent /\ ClickStartEffect

FrameKeyDown == TakeEvent /\ KeyDownEffect

FrameDpadTouch == TakeEvent /\ DpadTouchEffect

FrameKeyEscape == TakeEvent /\ KeyEscapeEffect

FrameClickMenu == TakeEvent /\ ClickMenuEffect

FrameClickNewMap == TakeEvent /\ ClickNewMapEffect

\* lines 965-988 with a game on: the queue is done, the update pass runs
\* and the next frame begins
FrameUpdate ==
  /\ frame_events' = 0
  /\ TickEffect

\* lines 965-988 on the menu: nothing to update, the next frame begins
FrameMenu ==
  /\ app_state = "menu"
  /\ frame_events' = 0
  /\ UNCHANGED <<bs, ps, script, app_state, selected_diff, game_state>>

NextFrame ==
  \/ FrameClickDifficulty
  \/ FrameClickStart
  \/ FrameKeyDown
  \/ FrameDpadTouch
  \/ FrameKeyEscape
  \/ FrameClickMenu
  \/ FrameClickNewMap
  \/ FrameUpdate
  \/ FrameMenu

SpecFrame == Init /\ [][NextFrame]_vars

----------------------------------------------------------------------------
(* SpecPath: a fresh game on every map of every difficulty, driven by a     *)
(* scripted walk: a path of 4-adjacent cells of the grid from START_POS     *)
(* that enters no pitfall, fed one move at a time, at most one per frame,   *)
(* until it has passed every piece.  script.at is the end of the path fed   *)
(* so far, script.seen the pieces on it, script.fed whether this frame has  *)
(* had its move, script.stray the number of moves fed from the first one    *)
(* that met input_locked on (0: every move met the playing screen).         *)

InitPath ==
  /\ app_state = "playing"
  /\ selected_diff \in DiffNames
  /\ \E placed \in Placements[DIFFICULTY[selected_diff]] :
       game_state = new_game(DIFFICULTY[selected_diff], placed)
  /\ script = [at |-> START_POS, seen |-> {}, fed |-> FALSE, stray |-> 0]
  /\ bs = Idle
  /\ ps = Idle
  /\ frame_events = 0

\* lines 922-923, 482-517: the next move of the path is fed as a key event
FeedMove ==
  /\ script.seen # game_state.piece_positions
  /\ ~script.fed
  /\ \E key \in DirKeys :
       LET d == KeyDelta(key)
           to == <<script.at[1] + d[1], script.at[2] + d[2]>>
           after == handle_keydown(key, game_state, NoDraw)
           stray == IF script.stray > 0 \/ input_locked(game_state)
                    THEN script.stray + 1
                    ELSE 0 IN
       /\ InGrid(to)
       /\ to \notin game_state.pitfall_positions
       /\ after.death_count <= MaxDeaths
       /\ stray <= MaxStrayMoves
       /\ game_state' = after
       /\ script' = [at |-> to,
                     seen |-> script.seen \cup
                                ({to} \cap game_state.piece_positions),
                     fed |-> TRUE,
                     stray |-> stray]
  /\ UNCHANGED <<bs, ps, app_state, selected_diff, frame_events>>

\* lines 965-988: the update pass of the frame
PathTick ==
  /\ game_state.screen_state = "win" => game_state.win_angle < 3 * MaxWinTicks
  /\ game_state' = update_pass(game_state)
  /\ script' = [script EXCEPT !.fed = FALSE]
  /\ UNCHANGED <<bs, ps, app_state, selected_diff, frame_events>>

NextPath == FeedMove \/ PathTick

SpecPath == InitPath /\ [][NextPath]_vars

----------------------------------------------------------------------------
(* Reachability on the grid, defined without the BFS of the program: the    *)
(* least set holding S and closed under stepping to a 4-adjacent cell of    *)
(* the grid that is not blocked.                                            *)

Adjacent4(a, b) ==
  \/ a[1] = b[1] /\ (a[2] = b[2] + 1 \/ b[2] = a[2] + 1)
  \/ a[2] = b[2] /\ (a[1] = b[1] + 1 \/ b[1] = a[1] + 1)

RECURSIVE FloodFill(_, _)
FloodFill(S, blocked) ==
  LET grown == S \cup {n \in Cells \ blocked : \E c \in S : Adjacent4(c, n)}
  IN IF grown = S THEN S ELSE FloodFill(grown, blocked)

\* start = goal, or a path from start to goal whose cells after start are
\* all in the grid and not blocked
PathExists(start, goal, blocked) == goal \in FloodFill({start}, blocked)

SeqRange(q) == {q[i] : i \in 1..Len(q)}

\* the candidates of the pitfalls loop that were drawn and not accepted
RejectedCandidates(p) == ((Cells \ p.forbidden) \ p.rest) \ p.pitfalls

----------------------------------------------------------------------------
(* Claims about place_items, under SpecPlace.                               *)

\* C1: at the return of place_items, for every hazard count and shuffle
\* order, the start cell is no pitfall and every piece is connected to
\* START_POS by a path of 4-adjacent grid cells none of which is a pitfall
\* (reachability by FloodFill, not by the program's BFS).
C1_ItemsReachable ==
  ps.pc = "done" =>
    /\ START_POS \notin ps.pitfalls
    /\ \A i \in 1..Len(ps.pieces) :
         /\ ps.pieces[i] \notin ps.pitfalls
         /\ PathExists(START_POS, ps.pieces[i], ps.pitfalls)

\* a return with a pitfall placed and a candidate rejected on the way
C1_Witness ==
  /\ ps.pc = "done"
  /\ ps.pitfalls # {}
  /\ RejectedCandidates(ps) # {}

\* C3: place_items returns exactly NUM_PIECES pairwise-distinct grid cells
\* and at most num_pitfalls pitfalls; it returns fewer than num_pitfalls only
\* after every candidate (every cell but start and pieces) was drawn, and
\* each candidate left out is one whose addition cuts some piece off.
C3_PlacementCounts ==
  ps.pc = "done" =>
    /\ Len(ps.pieces) = NUM_PIECES
    /\ Cardinality(SeqRange(ps.pieces)) = NUM_PIECES
    /\ SeqRange(ps.pieces) \subseteq Cells
    /\ Cardinality(ps.pitfalls) <= ps.num_pitfalls
    /\ Cardinality(ps.pitfalls) < ps.num_pitfalls =>
         /\ ps.rest = {}
         /\ ps.pitfalls \cup RejectedCandidates(ps) =
              (Cells \ {START_POS}) \ SeqRange(ps.pieces)
         /\ \A c \in RejectedCandidates(ps) :
              \E i \in 1..Len(ps.pieces) :
                ~PathExists(START_POS, ps.pieces[i], ps.pitfalls \cup {c})

\* a return with fewer pitfalls than asked for, one candidate rejected
C3_Witness ==
  /\ ps.pc = "done"
  /\ ps.num_pitfalls = 2
  /\ Cardinality(ps.pitfalls) = 1
  /\ RejectedCandidates(ps) # {}

----------------------------------------------------------------------------
(* Claim about _bfs_reachable, under SpecBfs.                               *)

\* C4 as stated: for start and goal in the grid and every blocked set, the
\* call returns true exactly when start = goal or a path of 4-adjacent cells
\* leads from start to goal whose cells after start, the goal included, are
\* in the grid and not blocked; and blocked is left as the caller passed it.
C4_BfsMatchesPaths ==
  bs.b.status \in {"true", "false"} =>
    /\ (bs.b.status = "true") <=>
         PathExists(bs.args.start, bs.args.goal, bs.args.blocked)
    /\ bs.b.blocked = bs.args.blocked

----------------------------------------------------------------------------
(* Claims about the game, under Spec.  A claim about the effect of one      *)
(* input is stated over every reachable state in which the input can        *)
(* arrive, as a condition on the state handle_keydown turns it into.        *)

HasGame == app_state = "playing"

Playing == HasGame /\ game_state.screen_state = "playing"

PlayerPos(state) == <<state.player_x, state.player_y>>

\* the cell one step from the player in the direction of the key
Target(state, key) ==
  CASE key = "K_UP" -> <<state.player_x, state.player_y - 1>>
    [] key = "K_DOWN" -> <<state.player_x, state.player_y + 1>>
    [] key = "K_LEFT" -> <<state.player_x - 1, state.player_y>>
    [] key = "K_RIGHT" -> <<state.player_x + 1, state.player_y>>

\* the facing the source encodes for each direction (lines 489-492)
Facing == [K_UP |-> 0, K_DOWN |-> 1, K_LEFT |-> 2, K_RIGHT |-> 3]

\* C2: in every state of a game (started by new_game or reset_game from any
\* output of place_items) the pitfalls and the pieces are disjoint and
\* START_POS is neither a pitfall nor a piece.
C2_MapDisjoint ==
  HasGame =>
    /\ game_state.pitfall_positions \cap game_state.piece_positions = {}
    /\ START_POS \notin game_state.pitfall_positions
    /\ START_POS \notin game_state.piece_positions

\* a game on a map with two pitfalls, one of them already triggered
C2_Witness ==
  /\ HasGame
  /\ Cardinality(game_state.pitfall_positions) = 2
  /\ game_state.revealed_pitfalls # {}
  /\ Cardinality(game_state.piece_positions) = NUM_PIECES

\* C5: in phase playing, a direction key whose target cell holds a pitfall
\* (from any player position) adds 1 to death_count, adds the target to
\* revealed_pitfalls, puts the player on START_POS and enters the flash
\* phase with flash_timer = FLASH_DURATION, all within that input step.
C5_PitfallTrigger ==
  Playing =>
    \A key \in DirKeys :
      Target(game_state, key) \in game_state.pitfall_positions =>
        LET after == handle_keydown(key, game_state, NoDraw) IN
        /\ after.death_count = game_state.death_count + 1
        /\ after.revealed_pitfalls =
             game_state.revealed_pitfalls \cup {Target(game_state, key)}
        /\ PlayerPos(after) = START_POS
        /\ after.screen_state = "flash"
        /\ after.flash_timer = FLASH_DURATION

\* the state right after a pitfall not adjacent to START_POS was triggered
C5_Witness ==
  /\ HasGame
  /\ game_state.screen_state = "flash"
  /\ game_state.flash_timer = FLASH_DURATION
  /\ game_state.death_count = 1
  /\ PlayerPos(game_state) = START_POS
  /\ \E h \in game_state.revealed_pitfalls : ~Adjacent4(h, START_POS)

\* C6: in phase playing with 4 pieces collected, a move onto the last
\* uncollected piece gives phase win with collected_pieces equal to the set
\* of piece positions, win_angle 0 and a non-empty particle burst; no state
\* has phase piece with all pieces collected.
C6_LastPieceWins ==
  /\ Playing /\ Cardinality(game_state.collected_pieces) = NUM_PIECES - 1 =>
       \A key \in DirKeys :
         Target(game_state, key) \in
             game_state.piece_positions \ game_state.collected_pieces =>
           LET after == handle_keydown(key, game_state, NoDraw) IN
           /\ after.screen_state = "win"
           /\ after.collected_pieces = after.piece_positions
           /\ after.win_angle = 0
           /\ after.win_stars > 0
  /\ HasGame /\ game_state.screen_state = "piece" =>
       game_state.collected_pieces # game_state.piece_positions

\* the state right after the last piece was collected
C6_Witness ==
  /\ HasGame
  /\ game_state.screen_state = "win"
  /\ game_state.win_angle = 0
  /\ game_state.win_stars = 40
  /\ game_state.piece_origin = PlayerPos(game_state)
  /\ game_state.collected_pieces = game_state.piece_positions

\* C7: in every state of a game the phase is win if and only if
\* collected_pieces equals the set of piece positions.
C7_WonIffAllCollected ==
  HasGame =>
    ((game_state.screen_state = "win") <=>
       (game_state.collected_pieces = game_state.piece_positions))

\* a won game, and it fell into a pitfall on the way
C7_Witness ==
  /\ HasGame
  /\ game_state.screen_state = "win"
  /\ game_state.death_count > 0

\* C8: new_game(h), and reset_game applied to any state of a game, give a
\* state with no collected piece, no revealed pitfall, death_count 0, phase
\* playing, the player on START_POS, visited = {START_POS} and all timers 0;
\* reset_game gives the state new_game(state.num_pitfalls) gives on the
\* same map.
C8_FreshState ==
  HasGame =>
    \A placed \in Placements[game_state.num_pitfalls] :
      LET fresh == new_game(game_state.num_pitfalls, placed)
          again == reset_game(game_state, placed) IN
      /\ again = fresh
      /\ fresh.collected_pieces = {}
      /\ fresh.revealed_pitfalls = {}
      /\ fresh.death_count = 0
      /\ fresh.screen_state = "playing"
      /\ PlayerPos(fresh) = START_POS
      /\ fresh.visited = {START_POS}
      /\ fresh.flash_timer = 0
      /\ fresh.piece_timer = 0
      /\ fresh.star_spawn_timer = 0
      /\ fresh.num_pitfalls = game_state.num_pitfalls

\* a fresh game at the hardest setting
C8_Witness ==
  /\ Playing
  /\ game_state.num_pitfalls = DIFFICULTY["Hard"]
  /\ game_state.visited = {START_POS}
  /\ game_state.death_count = 0
  /\ game_state.collected_pieces = {}

\* C9: in phase playing, a direction key whose target is outside the grid
\* changes nothing but the facing, which becomes the key's direction; two
\* such keys in a row leave position and visited as they were and the
\* facing that of the second key.
C9_WallMove ==
  Playing =>
    \A k1 \in DirKeys :
      Target(game_state, k1) \notin Cells =>
        LET once == handle_keydown(k1, game_state, NoDraw) IN
        /\ once = [game_state EXCEPT !.player_dir = Facing[k1]]
        /\ \A k2 \in DirKeys :
             Target(once, k2) \notin Cells =>
               LET twice == handle_keydown(k2, once, NoDraw) IN
               /\ PlayerPos(twice) = PlayerPos(game_state)
               /\ twice.visited = game_state.visited
               /\ twice.player_dir = Facing[k2]

\* the player walked right from START_POS to the bottom-right corner and
\* then pressed down into the wall
C9_Witness ==
  /\ Playing
  /\ PlayerPos(game_state) = <<COLS - 1, ROWS - 1>>
  /\ game_state.visited =
       {<<x, ROWS - 1>> : x \in (COLS \div 2)..(COLS - 1)}
  /\ game_state.player_dir = Facing["K_DOWN"]

\* C10 as stated: in phase playing, a move onto a pitfall that is already
\* revealed leaves the phase playing, death_count and revealed_pitfalls
\* unchanged, and the player on the cell moved to.
C10_RevealedPitfallNoOp ==
  Playing =>
    \A key \in DirKeys :
      Target(game_state, key) \in game_state.revealed_pitfalls =>
        LET after == handle_keydown(key, game_state, NoDraw) IN
        /\ after.screen_state = "playing"
        /\ after.death_count = game_state.death_count
        /\ after.revealed_pitfalls = game_state.revealed_pitfalls
        /\ PlayerPos(after) = Target(game_state, key)

\* C10 amended: in phase playing, a move onto a pitfall that is already
\* revealed triggers it again: revealed_pitfalls is unchanged, death_count
\* grows by 1, the player is put on START_POS and the phase becomes flash
\* with flash_timer = FLASH_DURATION.
C10_RevealedPitfallRetriggers ==
  Playing =>
    \A key \in DirKeys :
      Target(game_state, key) \in game_state.revealed_pitfalls =>
        LET after == handle_keydown(key, game_state, NoDraw) IN
        /\ after.revealed_pitfalls = game_state.revealed_pitfalls
        /\ after.death_count = game_state.death_count + 1
        /\ PlayerPos(after) = START_POS
        /\ after.screen_state = "flash"
        /\ after.flash_timer = FLASH_DURATION

\* the state right after the same pitfall was triggered a second time
C10_Witness ==
  /\ HasGame
  /\ game_state.screen_state = "flash"
  /\ game_state.flash_timer = FLASH_DURATION
  /\ game_state.death_count = 2
  /\ Cardinality(game_state.revealed_pitfalls) = 1

\* C11: on the flash, piece and win screens a direction key leaves the
\* whole game state as it is: position, facing, visited, collected pieces,
\* revealed pitfalls, death_count, screen and every timer.
C11_LockedInput ==
  HasGame /\ game_state.screen_state \in {"flash", "piece", "win"} =>
    \A key \in DirKeys : handle_keydown(key, game_state, NoDraw) = game_state

\* the piece-found sequence half way: a direction key arriving here is the
\* claim's case
C11_Witness ==
  /\ HasGame
  /\ game_state.screen_state = "piece"
  /\ game_state.piece_timer = 1
  /\ game_state.death_count > 0

\* the state part of C12
C12_ConfirmEffect ==
  HasGame =>
    IF game_state.screen_state = "win"
    THEN /\ \A key \in {"K_RETURN", "K_SPACE"} :
              \A placed \in Placements[game_state.num_pitfalls] :
                LET after == handle_keydown(key, game_state, placed) IN
                /\ after.screen_state = "playing"
                /\ after.num_pitfalls = game_state.num_pitfalls
                /\ after = new_game(game_state.num_pitfalls, placed)
         /\ \A key \in Keys \ {"K_RETURN", "K_SPACE"} :
              handle_keydown(key, game_state, NoDraw) = game_state
         /\ update_pass(game_state).screen_state = "win"
    ELSE \A key \in {"K_RETURN", "K_SPACE"} :
           handle_keydown(key, game_state, NoDraw) = game_state

\* the step part of C12: the win screen is left for a fresh map at the same
\* difficulty, or with the game discarded
C12_LeavesWin ==
  HasGame /\ game_state.screen_state = "win" =>
    \/ HasGame' /\ game_state'.screen_state = "win"
    \/ ~HasGame' /\ game_state' = NoGame
    \/ /\ HasGame'
       /\ \E placed \in Placements[game_state.num_pitfalls] :
            game_state' = new_game(game_state.num_pitfalls, placed)

\* C12: on the win screen RETURN or SPACE resets the game in place to a
\* fresh map with the same num_pitfalls and screen playing; on the other
\* screens they change nothing; the win screen is left only by a reset or
\* by discarding the game.
C12_ConfirmResets == [] C12_ConfirmEffect /\ [][C12_LeavesWin]_vars

\* a fresh game at the middle difficulty, as a reset leaves it
C12_Witness ==
  /\ Playing
  /\ game_state.num_pitfalls = DIFFICULTY["Medium"]
  /\ game_state.visited = {START_POS}
  /\ game_state.player_dir = 1
  /\ game_state.win_stars = 0

\* n update passes in a row
RECURSIVE Ticks(_, _)
Ticks(gs, n) == IF n = 0 THEN gs ELSE Ticks(update_pass(gs), n - 1)

\* the screen is scr for countdown - 1 update passes and playing after the next
LastsExactly(gs, scr, countdown) ==
  /\ \A k \in 0..(countdown - 1) : Ticks(gs, k).screen_state = scr
  /\ Ticks(gs, countdown).screen_state = "playing"

\* C13: on the flash (piece) screen an update pass lowers the countdown by
\* exactly 1 and the screen becomes playing on exactly the pass that brings
\* it to 0; the screen entered with FLASH_DURATION (PIECE_DURATION) lasts
\* exactly that many passes; no countdown is ever negative; leaving the
\* piece screen clears piece_origin.
C13_Countdown ==
  HasGame =>
    LET next == update_pass(game_state) IN
    /\ game_state.flash_timer >= 0
    /\ game_state.piece_timer >= 0
    /\ game_state.screen_state = "flash" =>
         /\ game_state.flash_timer \in 1..FLASH_DURATION
         /\ next.flash_timer = game_state.flash_timer - 1
         /\ next.screen_state =
              IF next.flash_timer = 0 THEN "playing" ELSE "flash"
         /\ LastsExactly(game_state, "flash", game_state.flash_timer)
    /\ game_state.screen_state = "piece" =>
         /\ game_state.piece_timer \in 1..PIECE_DURATION
         /\ next.piece_timer = game_state.piece_timer - 1
         /\ next.screen_state =
              IF next.piece_timer = 0 THEN "playing" ELSE "piece"
         /\ next.screen_state = "playing" => next.piece_origin = <<0, 0>>
         /\ LastsExactly(game_state, "piece", game_state.piece_timer)
    /\ game_state.screen_state = "playing" =>
         \A key \in DirKeys :
           LET after == handle_keydown(key, game_state, NoDraw) IN
           /\ after.screen_state = "flash" =>
                LastsExactly(after, "flash", FLASH_DURATION)
           /\ after.screen_state = "piece" =>
                LastsExactly(after, "piece", PIECE_DURATION)

\* back on the playing screen on the found piece, origin cleared, after a
\* flash earlier in the game
C13_Witness ==
  /\ Playing
  /\ PlayerPos(game_state) \in game_state.collected_pieces
  /\ game_state.piece_timer = 0
  /\ game_state.flash_timer = 0
  /\ game_state.piece_origin = <<0, 0>>
  /\ game_state.death_count = 1

\* C16: the player is always inside the grid, visited always contains
\* START_POS and the player's cell, and no direction key and no update pass
\* removes a cell from visited.
C16_VisitedGrows ==
  HasGame =>
    /\ PlayerPos(game_state) \in Cells
    /\ START_POS \in game_state.visited
    /\ PlayerPos(game_state) \in game_state.visited
    /\ \A key \in DirKeys :
         game_state.visited \subseteq
           handle_keydown(key, game_state, NoDraw).visited
    /\ update_pass(game_state).visited = game_state.visited

\* after a fall: the cells walked before the fall are still in visited
C16_Witness ==
  /\ HasGame
  /\ game_state.screen_state = "flash"
  /\ PlayerPos(game_state) = START_POS
  /\ Cardinality(game_state.visited) >= 4

\* the map of a game state: pieces, pitfalls and difficulty
GameMap(state) ==
  <<state.piece_positions, state.pitfall_positions, state.num_pitfalls>>

\* the state part of C17
C17_InputsKeepMap ==
  HasGame =>
    /\ \A key \in Keys :
         key \in DirKeys \/ game_state.screen_state # "win" =>
           GameMap(handle_keydown(key, game_state, NoDraw)) = GameMap(game_state)
    /\ GameMap(update_pass(game_state)) = GameMap(game_state)
    /\ game_state.screen_state = "win" =>
         \A placed \in Placements[game_state.num_pitfalls] :
           reset_game(game_state, placed).num_pitfalls = game_state.num_pitfalls
    /\ game_state.piece_positions \subseteq
         FloodFill({START_POS}, game_state.pitfall_positions)

\* the step part of C17: within one game the difficulty never changes, and
\* the pieces and pitfalls change only into the fresh state of a reset
C17_MapChangesByReset ==
  HasGame /\ HasGame' =>
    /\ game_state'.num_pitfalls = game_state.num_pitfalls
    /\ GameMap(game_state') # GameMap(game_state) =>
         /\ game_state.screen_state = "win"
         /\ game_state'.screen_state = "playing"
         /\ game_state'.visited = {START_POS}
         /\ game_state'.collected_pieces = {}
         /\ game_state'.death_count = 0

\* C17: direction keys, RETURN/SPACE outside the win screen and update
\* passes leave piece_positions, pitfall_positions and num_pitfalls alone;
\* the positions change only by a reset, which keeps num_pitfalls; every
\* piece is reachable from START_POS around the pitfalls in every state.
C17_MapFixed == [] C17_InputsKeepMap /\ [][C17_MapChangesByReset]_vars

\* late in a game: two falls and three pieces found, back on the playing
\* screen
C17_Witness ==
  /\ Playing
  /\ game_state.death_count = 2
  /\ Cardinality(game_state.collected_pieces) = 3

\* C18: on the playing screen a move onto an uncollected piece, with fewer
\* than NUM_PIECES - 1 collected before, adds exactly that cell to
\* collected_pieces, makes it piece_origin and enters the piece screen with
\* piece_timer = PIECE_DURATION, death_count and revealed_pitfalls
\* unchanged; a move onto a collected piece leaves collected_pieces, the
\* screen and the timers unchanged.
C18_CollectPiece ==
  Playing =>
    \A key \in DirKeys :
      LET target == Target(game_state, key)
          after == handle_keydown(key, game_state, NoDraw) IN
      /\ /\ target \in game_state.piece_positions \ game_state.collected_pieces
         /\ Cardinality(game_state.collected_pieces) < NUM_PIECES - 1
         => /\ after.collected_pieces = game_state.collected_pieces \cup {target}
            /\ after.piece_origin = target
            /\ after.screen_state = "piece"
            /\ after.piece_timer = PIECE_DURATION
            /\ after.death_count = game_state.death_count
            /\ after.revealed_pitfalls = game_state.revealed_pitfalls
      /\ target \in game_state.collected_pieces
         => /\ after.collected_pieces = game_state.collected_pieces
            /\ after.screen_state = game_state.screen_state
            /\ after.flash_timer = game_state.flash_timer
            /\ after.piece_timer = game_state.piece_timer

\* the second piece has just been found
C18_Witness ==
  /\ HasGame
  /\ game_state.screen_state = "piece"
  /\ game_state.piece_timer = PIECE_DURATION
  /\ game_state.piece_origin = PlayerPos(game_state)
  /\ Cardinality(game_state.collected_pieces) = 2

\* C19: revealed_pitfalls is exactly the visited pitfalls and
\* collected_pieces is exactly the visited pieces.
C19_VisitedItems ==
  HasGame =>
    /\ game_state.revealed_pitfalls =
         game_state.visited \cap game_state.pitfall_positions
    /\ game_state.collected_pieces =
         game_state.visited \cap game_state.piece_positions

\* a pitfall revealed and a piece collected, with pitfalls and pieces left
C19_Witness ==
  /\ HasGame
  /\ game_state.revealed_pitfalls # {}
  /\ game_state.revealed_pitfalls # game_state.pitfall_positions
  /\ game_state.collected_pieces # {}
  /\ game_state.collected_pieces # game_state.piece_positions

\* C20: the player never stands on a pitfall; on the flash screen the player
\* is on START_POS; death_count is 0 exactly when no pitfall is revealed.
C20_NeverOnPitfall ==
  HasGame =>
    /\ PlayerPos(game_state) \notin game_state.pitfall_positions
    /\ game_state.screen_state = "flash" => PlayerPos(game_state) = START_POS
    /\ game_state.death_count = 0 <=> game_state.revealed_pitfalls = {}

\* two different pitfalls hit, the second a moment ago
C20_Witness ==
  /\ HasGame
  /\ game_state.screen_state = "flash"
  /\ game_state.death_count = 2
  /\ Cardinality(game_state.revealed_pitfalls) = 2

\* the original statement of C14: a frame applies at most one event of its
\* queue before its update pass.
C14_OneEventPerFrame == frame_events <= 1

\* one step of the main loop, seen from the game
C14_FrameStep ==
  IF frame_events' = frame_events + 1
  THEN \* an event of the queue is handled: no countdown moves
       HasGame /\ HasGame' =>
         /\ game_state.screen_state = "flash" =>
              game_state'.flash_timer = game_state.flash_timer
         /\ game_state.screen_state = "piece" =>
              game_state'.piece_timer = game_state.piece_timer
         /\ game_state.screen_state = "win" =>
              \/ game_state'.win_angle = game_state.win_angle
              \/ game_state'.screen_state = "playing"
  ELSE \* the frame ends: one update pass and nothing else
       /\ frame_events' = 0
       /\ app_state' = app_state
       /\ selected_diff' = selected_diff
       /\ HasGame =>
            /\ game_state.screen_state = "flash" =>
                 game_state'.flash_timer = game_state.flash_timer - 1
            /\ game_state.screen_state = "piece" =>
                 game_state'.piece_timer = game_state.piece_timer - 1
            /\ game_state.screen_state = "win" =>
                 game_state'.win_angle = game_state.win_angle + 3
            /\ game_state.screen_state = "playing" =>
                 game_state' = game_state

\* C14 (amended): a frame handles the events of its queue one after the
\* other, any number of them, with no update pass between them, and then
\* runs exactly one update pass.
C14_EventsThenOnePass == [][C14_FrameStep]_vars

\* the second event of a frame was a move into a pitfall: the flash
\* countdown is still full
C14_Witness ==
  /\ frame_events = 2
  /\ HasGame
  /\ game_state.screen_state = "flash"
  /\ game_state.flash_timer = FLASH_DURATION

\* the path has passed every piece of the map
ScriptDone == script.seen = game_state.piece_positions

\* the original statement of C15: a script fed at most one move per frame
\* ends on the win screen with death_count 0.
C15_ScriptWins ==
  ScriptDone =>
    /\ game_state.screen_state = "win"
    /\ game_state.death_count = 0

\* C15 (amended): a script whose every move was fed on the playing screen
\* keeps the player on its path with exactly the pieces of the path
\* collected and death_count 0, and ends on the win screen; on every map
\* all pieces lie in the pitfall-free region around START_POS, so such a
\* path exists.
C15_PatientScriptWins ==
  /\ game_state.piece_positions \subseteq
       FloodFill({START_POS}, game_state.pitfall_positions)
  /\ script.stray = 0 =>
       /\ PlayerPos(game_state) = script.at
       /\ game_state.collected_pieces = script.seen
       /\ game_state.death_count = 0
       /\ game_state.screen_state = "win" <=> ScriptDone

\* a script fed to its end on a map with a pitfall, every move on the
\* playing screen
C15_Witness ==
  /\ ScriptDone
  /\ script.stray = 0
  /\ game_state.screen_state = "win"
  /\ game_state.pitfall_positions # {}

====
